---- MODULE Spec2Model ----
(***************************************************************************)
(* Model of the Local Guides summary service (src/unnamed/part_000):       *)
(* identifier normalizer, result cache, concurrency limiter, in-flight     *)
(* de-duplication, deadline guard, browser singleton with idle shutdown    *)
(* and the candidate-retry loop of scrapeCounts.                           *)
(*                                                                         *)
(* Execution model: Node's event loop.  A macrotask (an HTTP request, a    *)
(* timer callback, the completion of a browser operation) runs only when   *)
(* the microtask queue is empty; promise continuations are the jobs of the *)
(* FIFO queue `microtasks`, drained one job per step.  The clock `now`     *)
(* may advance between two macrotasks and before the resumption of a       *)
(* route handler, the only promise job that reads it.                      *)
(*                                                                         *)
(* Strings are sequences of tokens: a token is one character ("7", "/",    *)
(* " ") or an indivisible word ("google.com/maps/contrib") that no         *)
(* pattern of the program looks inside.                                    *)
(***************************************************************************)
EXTENDS Integers, Sequences, FiniteSets, TLC

\* ------------------------------------------------------------------ bounds

\* largest number of rows of a statistics panel given to the extractor alone
MaxPanelRows == 3
\* number of HTTP requests in a run
NReq == 3
\* largest value of SCRAPE_CONCURRENCY explored
MaxK == 2
\* last instant of the clock
MaxTime == 2
\* cache time-to-live in clock ticks (stands for 5 * 60 * 1000 ms)
TtlTicks == 1
\* deadline of a request in clock ticks (stands for 75_000 ms)
DeadlineTicks == 1
\* deadline of a slow-mode request in clock ticks (stands for 90_000 ms)
SlowDeadlineTicks == 2
\* idle-shutdown delay in clock ticks (stands for 60_000 ms)
IdleTicks == 1

Reqs == 1..NReq

\* the runs explored: NReq requests sent to a server of one slot until one
\* instant before the last, or one request less sent to a server of up to
\* MaxK slots until the last instant
Scenarios ==
  {[max |-> 1, load |-> NReq, horizon |-> MaxTime - 1]}
    \cup {[max |-> k, load |-> NReq - 1, horizon |-> MaxTime] : k \in 1..MaxK}

\* ----------------------------------------------------------------- strings

Digit == {"0", "1", "2", "3", "4", "5", "6", "7", "8", "9"}
Space == {" ", "\t", "\n"}

RECURSIVE TrimLeft(_)
TrimLeft(s) ==
  IF s # <<>> /\ Head(s) \in Space THEN TrimLeft(Tail(s)) ELSE s

RECURSIVE TrimRight(_)
TrimRight(s) ==
  IF s # <<>> /\ s[Len(s)] \in Space
  THEN TrimRight(SubSeq(s, 1, Len(s) - 1)) ELSE s

Trim_LeftOnly(s) == TrimLeft(s)

\* String.prototype.trim
Trim(s) == TrimRight(TrimLeft(s))

\* String.prototype.includes for a needle given as a token sequence
Includes(s, needle) ==
  \E i \in 1..(Len(s) - Len(needle) + 1) :
    SubSeq(s, i, i + Len(needle) - 1) = needle

\* s.replace(/\/+$/, "")
RECURSIVE StripTrailingSlashes(_)
StripTrailingSlashes(s) ==
  IF s # <<>> /\ s[Len(s)] = "/"
  THEN StripTrailingSlashes(SubSeq(s, 1, Len(s) - 1)) ELSE s

IsLongNumericId_AnyLength(s) == Len(s) >= 1 /\ \A i \in 1..Len(s) : s[i] \in Digit

\* /^\d{10,}$/.test(s)
IsLongNumericId(s) == Len(s) >= 10 /\ \A i \in 1..Len(s) : s[i] \in Digit

ContribSegment == <<"google.com/maps/contrib", "/">>
CanonicalPrefix == <<"https://www.">> \o ContribSegment

\* the rejection value of normalizeIdOrUrl (JavaScript null)
NullUrl == <<"null">>

normalizeIdOrUrl(raw) ==
  LET r == Trim(raw) IN
  IF r = <<>> THEN NullUrl
  ELSE IF IsLongNumericId(r) THEN CanonicalPrefix \o r
  ELSE IF Includes(r, ContribSegment) THEN StripTrailingSlashes(r)
  ELSE NullUrl

\* String(req.query.mode || "").toLowerCase()
toLowerCase(m) ==
  CASE m = "SLOW" -> "slow"
    [] m = "Slow" -> "slow"
    [] OTHER -> m

\* ------------------------------------------------------------------ numbers

DigitVal(c) ==
  CASE c = "0" -> 0 [] c = "1" -> 1 [] c = "2" -> 2 [] c = "3" -> 3
    [] c = "4" -> 4 [] c = "5" -> 5 [] c = "6" -> 6 [] c = "7" -> 7
    [] c = "8" -> 8 [] c = "9" -> 9

RECURSIVE NumberOfDigits(_, _)
NumberOfDigits(s, acc) ==
  IF s = <<>> THEN acc
  ELSE NumberOfDigits(Tail(s),
         IF Head(s) \in Digit THEN 10 * acc + DigitVal(Head(s)) ELSE acc)

\* toNum: Number(String(v).replace(/[^\d]/g, "")) || 0
toNum(v) == NumberOfDigits(v, 0)

\* ----------------------------------------------------- text pattern extractor

LocalGuideWord == {"Local Guide", "local guide"}
LevelWord == {"Level", "level"}
PointsWord == {"points", "Points", "pts"}
Whitespace == {" ", "\t", "\n"}
NumberChar == Digit \cup {",", "."}
\* tokens that begin and end with a word character (\w)
WordToken ==
  Digit \cup LocalGuideWord \cup LevelWord \cup PointsWord
    \cup {"x", "ratings", "reviews"}

CharLen(t) ==
  CASE t \in LocalGuideWord -> 11
    [] t \in LevelWord -> 5
    [] t \in {"points", "Points"} -> 6
    [] t = "pts" -> 3
    [] t \in {"ratings", "reviews"} -> 7
    [] OTHER -> 1

RECURSIVE CharLenOf(_)
CharLenOf(s) == IF s = <<>> THEN 0 ELSE CharLen(Head(s)) + CharLenOf(Tail(s))

\* end of the longest run of tokens of `set` that starts at position p
RECURSIVE RunEnd(_, _, _)
RunEnd(s, p, set) ==
  IF p <= Len(s) /\ s[p] \in set THEN RunEnd(s, p + 1, set) ELSE p - 1

Min(S) == CHOOSE x \in S : \A y \in S : x <= y

\* /Local Guide[^\n]{0,200}?Level\s*(\d+)/i : the positions <<i, j, d>> of the
\* marker, of "Level" and of the first digit of every way the pattern matches
LevelMatches(text) ==
  { m \in (1..Len(text)) \X (1..Len(text)) \X (1..Len(text)) :
      /\ text[m[1]] \in LocalGuideWord
      /\ m[1] < m[2]
      /\ text[m[2]] \in LevelWord
      /\ \A g \in (m[1] + 1)..(m[2] - 1) : text[g] # "\n"
      /\ CharLenOf(SubSeq(text, m[1] + 1, m[2] - 1)) <= 200
      /\ m[3] = RunEnd(text, m[2] + 1, Whitespace) + 1
      /\ m[3] <= Len(text)
      /\ text[m[3]] \in Digit }

\* the second level pattern also wants a bullet, then optional blanks, right
\* before "Level"
BulletLevelMatches(text) ==
  { m \in LevelMatches(text) :
      \E b \in (m[1] + 1)..(m[2] - 1) :
        /\ text[b] \in {"bullet", "middot"}
        /\ \A g \in (b + 1)..(m[2] - 1) : text[g] \in Whitespace }

\* leftmost start, then the lazy gap: the nearest "Level"
FirstMatch(ms) ==
  LET i == Min({m[1] : m \in ms})
      j == Min({m[2] : m \in {n \in ms : n[1] = i}})
  IN CHOOSE m \in ms : m[1] = i /\ m[2] = j

\* /(\d[\d,\.]*)\s+(?:points|pts)\b/i : start positions of the number
PointsBeforeStarts(text) ==
  { p \in 1..Len(text) :
      /\ text[p] \in Digit
      /\ LET e == RunEnd(text, p, NumberChar)
             w == RunEnd(text, e + 1, Whitespace)
         IN /\ w > e
            /\ w + 1 <= Len(text)
            /\ text[w + 1] \in PointsWord
            /\ (w + 2 <= Len(text) => text[w + 2] \notin WordToken) }

\* /\b(?:points|pts)\b[^\d]{0,40}(\d[\d,\.]*)/i : <<position of the word,
\* position of the first digit>>
PointsAfterMatches(text) ==
  { m \in (1..Len(text)) \X (1..Len(text)) :
      /\ text[m[1]] \in PointsWord
      /\ (m[1] > 1 => text[m[1] - 1] \notin WordToken)
      /\ (m[1] + 1 <= Len(text) => text[m[1] + 1] \notin WordToken)
      /\ m[1] < m[2]
      /\ text[m[2]] \in Digit
      /\ \A g \in (m[1] + 1)..(m[2] - 1) : text[g] \notin Digit
      /\ CharLenOf(SubSeq(text, m[1] + 1, m[2] - 1)) <= 40 }

pullLevelPoints(text) ==
  LET lm == IF LevelMatches(text) # {} THEN LevelMatches(text)
            ELSE BulletLevelMatches(text)
      level == IF lm = {} THEN 0
               ELSE LET m == FirstMatch(lm)
                    IN toNum(SubSeq(text, m[3], RunEnd(text, m[3], Digit)))
      pb == PointsBeforeStarts(text)
      pa == PointsAfterMatches(text)
      points ==
        IF pb # {}
        THEN toNum(SubSeq(text, Min(pb), RunEnd(text, Min(pb), NumberChar)))
        ELSE IF pa # {}
        THEN LET w == Min({m[1] : m \in pa})
                 d == Min({m[2] : m \in {n \in pa : n[1] = w}})
             IN toNum(SubSeq(text, d, RunEnd(text, d, NumberChar)))
        ELSE 0
  IN [level |-> level, points |-> points]

\* the label pattern parseCounts gives find() for a count field, as the
\* tokens it matches
LabelWords(field) ==
  CASE field = "reviews" -> {"reviews", "review", "Reviews"}
    [] field = "ratings" -> {"ratings", "rating", "Ratings"}
    [] field = "photos" -> {"photos", "photo", "videos", "video"}
    [] field = "edits" -> {"edits", "edit"}
    [] field = "questions" -> {"questions", "question"}
    [] field = "facts" -> {"facts", "fact"}
    [] field = "roadsAdded" -> {"roads added", "road added"}
    [] field = "placesAdded" -> {"places added", "place added"}
    [] field = "listsPublished" -> {"lists published", "list published"}

\* find(label) of parseCounts: a number, blanks, the label; else the label,
\* at most 40 non-digits, a number; else 0
find(html, field) ==
  LET before ==
        { p \in 1..Len(html) :
            /\ html[p] \in Digit
            /\ LET e == RunEnd(html, p, NumberChar)
                   w == RunEnd(html, e + 1, Whitespace)
               IN w > e /\ w + 1 <= Len(html) /\ html[w + 1] \in LabelWords(field) }
      after ==
        { m \in (1..Len(html)) \X (1..Len(html)) :
            /\ html[m[1]] \in LabelWords(field)
            /\ m[1] < m[2]
            /\ html[m[2]] \in Digit
            /\ \A g \in (m[1] + 1)..(m[2] - 1) : html[g] \notin Digit
            /\ CharLenOf(SubSeq(html, m[1] + 1, m[2] - 1)) <= 40 }
  IN IF before # {}
     THEN toNum(SubSeq(html, Min(before), RunEnd(html, Min(before), NumberChar)))
     ELSE IF after # {}
     THEN LET w == Min({m[1] : m \in after})
              d == Min({m[2] : m \in {n \in after : n[1] = w}})
          IN toNum(SubSeq(html, d, RunEnd(html, d, NumberChar)))
     ELSE 0

\* -------------------------------------------------- structured field extractor

\* (textContent || "").trim().toLowerCase() of a row's label element
LabelOf(raw) ==
  CASE raw \in {"Reviews", " reviews "} -> "reviews"
    [] raw = "Ratings" -> "ratings"
    [] raw = "Photos" -> "photos"
    [] raw = "Answers" -> "answers"
    [] raw = "Edits" -> "edits"
    [] raw = "Reported incorrect" -> "reported incorrect"
    [] raw = "Facts checked" -> "facts checked"
    [] raw = "Places added" -> "places added"
    [] raw = "Roads added" -> "roads added"
    [] raw = "Videos" -> "videos"
    [] raw = "Level" -> "level"
    [] OTHER -> raw

ZeroCounts ==
  [reviews |-> 0, ratings |-> 0, photos |-> 0, edits |-> 0, questions |-> 0,
   facts |-> 0, roadsAdded |-> 0, placesAdded |-> 0, listsPublished |-> 0]

Max(a, b) == IF a >= b THEN a ELSE b

ApplyRow_LastWins(out, r) ==
  LET label == LabelOf(r.label)
      value == toNum(r.value)
  IN CASE label = "reviews" -> [out EXCEPT !.reviews = value]
       [] label = "ratings" -> [out EXCEPT !.ratings = value]
       [] label = "photos" -> [out EXCEPT !.photos = value]
       [] label = "answers" -> [out EXCEPT !.questions = value]
       [] label = "edits" -> [out EXCEPT !.edits = value]
       [] label \in {"reported incorrect", "facts checked"} ->
            [out EXCEPT !.facts = value]
       [] label = "places added" -> [out EXCEPT !.placesAdded = value]
       [] label = "roads added" -> [out EXCEPT !.roadsAdded = value]
       [] OTHER -> out

\* one iteration of the loop over the panel rows
ApplyRow(out, r) ==
  LET label == LabelOf(r.label)
      value == toNum(r.value)
  IN CASE label = "reviews" -> [out EXCEPT !.reviews = value]
       [] label = "ratings" -> [out EXCEPT !.ratings = value]
       [] label = "photos" -> [out EXCEPT !.photos = value]
       [] label = "answers" -> [out EXCEPT !.questions = value]
       [] label = "edits" -> [out EXCEPT !.edits = value]
       [] label \in {"reported incorrect", "facts checked"} ->
            [out EXCEPT !.facts = Max(out.facts, value)]
       [] label = "places added" -> [out EXCEPT !.placesAdded = value]
       [] label = "roads added" -> [out EXCEPT !.roadsAdded = value]
       [] OTHER -> out

RECURSIVE FoldRows(_, _)
FoldRows(out, rows) ==
  IF rows = <<>> THEN out ELSE FoldRows(ApplyRow(out, Head(rows)), Tail(rows))

\* extractCountsFromModal: the rows of the panel, or all zero when the
\* evaluation throws
extractCountsFromModal(page) ==
  IF page.evalFails THEN ZeroCounts ELSE FoldRows(ZeroCounts, page.rows)

\* extractContributorName: first non-empty selector text, else the guess
RECURSIVE FirstNonEmpty(_)
FirstNonEmpty(texts) ==
  IF texts = <<>> THEN ""
  ELSE IF Head(texts) # "" THEN Head(texts) ELSE FirstNonEmpty(Tail(texts))

NullName == "null"

extractContributorName(page) ==
  IF FirstNonEmpty(page.headings) # "" THEN FirstNonEmpty(page.headings)
  ELSE IF page.guess # "" THEN page.guess
  ELSE NullName

\* ------------------------------------------------------- rendered pages used

\* a page is what the browser renders for a candidate URL: `panel` says what
\* becomes of the statistics panel, `rows` are the panel rows in the document
\* when the counts are read and `later` those a further wait would show
ProfileRows ==
  << [label |-> "Reviews", value |-> <<"4", "2">>],
     [label |-> "Facts checked", value |-> <<"3">>],
     [label |-> "Reported incorrect", value |-> <<"5">>],
     [label |-> "Videos", value |-> <<"9">>] >>

ProfilePage ==
  [consent |-> FALSE, evalFails |-> FALSE, panel |-> "opens",
   rows |-> ProfileRows, later |-> ProfileRows,
   text |-> << "Local Guide", " ", "middot", " ", "Level", " ", "7", "\n",
               "1", ",", "2", "3", "4", " ", "points", "\n",
               "1", "2", " ", "ratings" >>,
   headings |-> <<"", "Ann Lee", "", "">>, guess |-> ""]

ConsentPage ==
  [consent |-> TRUE, evalFails |-> FALSE, panel |-> "noChip", later |-> <<>>,
   rows |-> <<>>,
   text |-> << "Before you continue to Google" >>,
   headings |-> <<"", "", "", "">>, guess |-> ""]

Pages == {ProfilePage, ConsentPage}

\* pages of a profile: the rows of the panel in several orders, with a row
\* the extractor has no field for; body texts with and without a count
\* that differs from the panel's; panels that do not open, with and without
\* rows that show up later; an evaluation that throws
LevelRow == [label |-> "Level", value |-> <<"3">>]
RowOrders ==
  LET r == ProfileRows
  IN { r, <<r[4], r[3], r[2], r[1]>>, <<r[2], LevelRow, r[1], r[4], r[3]>>,
       <<LevelRow, r[3], r[1], r[2]>> }
BodyTexts ==
  { ProfilePage.text, ProfilePage.text \o <<"\n", "7", " ", "reviews">> }
BareText == <<"Ann Lee", "\n", "Contributions">>
PanelFailures == {"noChip", "clickFails", "timeout"}

ServedPages ==
  { [ProfilePage EXCEPT !.rows = rs, !.text = t, !.later = rs] :
      rs \in RowOrders, t \in BodyTexts }
    \cup { [ProfilePage EXCEPT !.panel = f, !.rows = <<>>, !.text = t, !.later = l] :
             f \in PanelFailures, t \in {ProfilePage.text, BareText},
             l \in {<<>>, ProfileRows} }
    \cup { [ProfilePage EXCEPT !.evalFails = TRUE], ConsentPage }

NoPage ==
  [consent |-> FALSE, evalFails |-> FALSE, panel |-> "none", later |-> <<>>,
   rows |-> <<>>, text |-> <<>>, headings |-> <<>>, guess |-> ""]

\* /Before you continue to Google/i.test(preTxt)
IsConsentText(text) == \E i \in 1..Len(text) : text[i] = "Before you continue to Google"

\* ----------------------------------------------------------- error messages

MsgConsent == <<"consent wall">>
MsgNavTimeout == <<"Navigation ", "timeout", " of 20000 ms exceeded">>
MsgNetwork == <<"net::ERR_CONNECTION_RESET">>
MsgTargetClosed == <<"Protocol error: Target closed">>
MsgNoChrome ==
  <<"Chrome/Chromium not found.", " Ensure build runs puppeteer browsers install.">>
MsgLaunch == <<"Failed to launch the browser process">>
MsgNewPage == <<"Target.createTarget timed out">>
MsgNoPanel == <<"Waiting for selector", " .QrGqBf .nKYSz .FM5HI failed">>

\* /consent wall/i.test(msg)
IsConsentWall(msg) == \E i \in 1..Len(msg) : msg[i] \in {"consent wall", "Consent wall"}

\* /timeout/i.test(msg) || /Waiting for selector/i.test(msg)
IsTimeoutMsg(msg) ==
  \/ \E i \in 1..Len(msg) : msg[i] \in {"timeout", "Timeout"}
  \/ \E i \in 1..Len(msg) : msg[i] = "Waiting for selector"

\* `Failed to parse profile (${lastErr || "unknown"})`
ExhaustedMsg(lastErr) ==
  <<"Failed to parse profile (">>
    \o (IF lastErr = <<>> THEN <<"unknown">> ELSE lastErr) \o <<")">>

\* `${label} timed out after ${ms}ms`
DeadlineMsg(label, ms) == <<label, " timed out after ", ms, "ms">>

\* ------------------------------------------------------------------ requests

IdA == <<"1", "2", "3", "4", "5", "6", "7", "8", "9", "0">>
IdB == <<"9", "8", "7", "6", "5", "4", "3", "2", "1", "0", "0">>

\* query strings (contrib_url, mode) the requests are drawn from
Inputs ==
  { [raw |-> IdA, mode |-> ""],
    [raw |-> CanonicalPrefix \o IdA \o <<"/">>, mode |-> ""],
    [raw |-> <<" ">> \o IdA, mode |-> "SLOW"],
    [raw |-> IdB, mode |-> ""],
    [raw |-> <<"1", "2", "3">>, mode |-> ""] }

\* contrib_url values a client can send: an identifier, a profile URL or
\* something else, between leading and trailing characters
RawCores ==
  { IdA, IdB, SubSeq(IdA, 1, 9), <<"1", "2", "3">>, <<>>, <<"abc">>,
    SubSeq(IdA, 1, 5) \o <<" ">> \o SubSeq(IdA, 6, 10),
    IdA \o <<"x">>,
    CanonicalPrefix \o IdA,
    CanonicalPrefix,
    <<"https://www.", "google.com/maps/contrib">>,
    <<"https://www.", "google.com/maps/place", "/">> \o IdA }
RawLead == { <<>>, <<" ">>, <<"\n", "\t">> }
RawTrail == { <<>>, <<" ">>, <<"\t", "\n">>, <<"/">>, <<"/", "/">>, <<"/", " ">>, <<" ", "/">> }

RawInputs ==
  { [raw |-> l \o c \o t, mode |-> ""] :
      l \in RawLead, c \in RawCores, t \in RawTrail } \cup Inputs

\* key = `sum:${mode}:${src}`
KeyOf(mode, src) == [mode |-> mode, src |-> src]
NoKey == KeyOf("", NullUrl)

AllKeys ==
  { KeyOf(toLowerCase(i.mode), normalizeIdOrUrl(i.raw)) :
      i \in {j \in RawInputs : normalizeIdOrUrl(j.raw) # NullUrl} }

\* candidates[i] of scrapeCounts
Candidate(contribUrl, i) ==
  IF i = 0 THEN contribUrl \o <<"?hl=en&gl=us&authuser=0">>
  ELSE contribUrl \o <<"/reviews", "?hl=en&gl=us&authuser=0">>

NoCounts == [name |-> NullName, level |-> 0, points |-> 0] @@ ZeroCounts

NoOut == [kind |-> "none", url |-> <<>>, counts |-> NoCounts, msg |-> <<>>]
OkOut(url, counts) == [kind |-> "ok", url |-> url, counts |-> counts, msg |-> <<>>]
ErrOut(msg) == [kind |-> "err", url |-> <<>>, counts |-> NoCounts, msg |-> msg]

NoPayload == [ok |-> FALSE, contribUrl |-> <<>>, fetchedAt |-> -1, counts |-> NoCounts]
\* { ok: true, contribUrl: url, fetchedAt: new Date().toISOString(), ...counts }
Payload(url, at, counts) ==
  [ok |-> TRUE, contribUrl |-> url, fetchedAt |-> at, counts |-> counts]

NoResp == [status |-> 0, code |-> "", message |-> <<>>, body |-> NoPayload, cached |-> FALSE]
BadRequest ==
  [status |-> 400, code |-> "BAD_REQUEST",
   message |-> <<"Provide ?contrib_url=.../maps/contrib/<id> or numeric id">>,
   body |-> NoPayload, cached |-> FALSE]
\* a wrapper that sends an empty record along with the error (C18 depends on
\* the error response holding no record field)
RouteError_WithRecord(msg) ==
  [status |-> 422, code |-> "ROUTE_ERROR", message |-> msg,
   body |-> Payload(<<>>, 0, NoCounts), cached |-> FALSE]

\* the catch of ah: 422 ROUTE_ERROR with the message of the error
RouteError(msg) ==
  [status |-> 422, code |-> "ROUTE_ERROR", message |-> msg,
   body |-> NoPayload, cached |-> FALSE]
Ok200(payload, fromCache) ==
  [status |-> 200, code |-> "", message |-> <<>>, body |-> payload, cached |-> fromCache]

NoEntry == [has |-> FALSE, data |-> NoPayload, exp |-> -1]

\* an execution: the promise made by deduped(), the Limiter.run call inside
\* it and the scrapeCounts call inside that.  browser and i are locals of
\* scrapeCounts; navs (the candidates page.goto was called with) and errs (the
\* errors the candidate loop caught; lastErr is the last) are the record of
\* the call, kept until Limiter.run is resumed
NoExec ==
  [st |-> "none", key |-> NoKey, browser |-> 0, i |-> 0,
   navs |-> <<>>, errs |-> <<>>, out |-> NoOut]

\* states of an execution in which its task (scrapeCounts) has been called
\* and has not settled
Running == {"launching", "session", "attempt"}

\* the queries the route computes from the inputs: src and mode
Queries ==
  { [src |-> normalizeIdOrUrl(i.raw), mode |-> toLowerCase(i.mode)] : i \in Inputs }

\* --------------------------------------------------------------------- state

VARIABLES
  now,          \* Date.now(), in ticks
  max,          \* scrapeLimiter.max
  load,         \* number of requests the clients send
  horizon,      \* instant at which the clock stops
  hasChrome,    \* findChromeBinary() finds a binary
  reqSt,        \* request -> "new" | "waiting" | "done"
  reqKey,       \* request -> cache / in-flight key
  reqExec,      \* request -> the execution whose promise it awaits (0: none)
  reqDue,       \* request -> due time of its deadline timer (-1: not armed)
  resp,         \* request -> response sent
  exec,         \* execution -> state of deduped / Limiter.run / scrapeCounts
  active,       \* scrapeLimiter.active
  waiters,      \* scrapeLimiter.waiters
  inflight,     \* executions registered in the inflight map
  cache,        \* key -> entry
  browser,      \* _browser (0: null)
  procs,        \* browser processes launched and not closed
  contexts,     \* executions whose browser context is open
  idleTimer,    \* _idleTimer and the timer it refers to
  strayTimers,  \* due time -> pending idle timers _idleTimer no longer refers to
  idleClosing,  \* idle callbacks suspended in `await _browser?.close()`
  input,        \* what the step just taken read from outside, when observed
  microtasks    \* promise jobs queued

vars ==
  << now, max, load, horizon, hasChrome, reqSt, reqKey, reqExec, reqDue, resp, exec, active,
     waiters, inflight, cache, browser, procs, contexts, idleTimer,
     strayTimers, idleClosing, input, microtasks >>

reqVars == << reqSt, reqKey, reqExec, reqDue, resp >>
limiterVars == << active, waiters >>
browserVars == << browser, procs, contexts, idleTimer, strayTimers, idleClosing >>
envVars == << max, load, horizon, hasChrome >>

\* no input is observed
NoInput ==
  [kind |-> "none", of |-> 0, raw |-> <<>>, mode |-> "", page |-> NoPage,
   counts |-> ZeroCounts]

NoTimer == [set |-> FALSE, pending |-> FALSE, due |-> -1]
DueTimes == 0..(MaxTime + IdleTicks)

\* the state after start, the workload being one of scs
ServerAfterStart(scs) ==
  /\ now = 0
  /\ \E sc \in scs : max = sc.max /\ load = sc.load /\ horizon = sc.horizon
  /\ hasChrome \in BOOLEAN
  /\ reqSt = [r \in Reqs |-> "new"]
  /\ reqKey = [r \in Reqs |-> NoKey]
  /\ reqExec = [r \in Reqs |-> 0]
  /\ reqDue = [r \in Reqs |-> -1]
  /\ resp = [r \in Reqs |-> NoResp]
  /\ exec = [e \in Reqs |-> NoExec]
  /\ active = 0
  /\ waiters = <<>>
  /\ inflight = {}
  /\ cache = [k \in AllKeys |-> NoEntry]
  /\ browser = 0
  /\ procs = {}
  /\ contexts = {}
  /\ idleTimer = NoTimer
  /\ strayTimers = [d \in DueTimes |-> 0]
  /\ idleClosing = 0
  /\ microtasks = <<>>

\* the same, no input being observed
StateAfterStart(scs) == ServerAfterStart(scs) /\ input = NoInput

Init == StateAfterStart(Scenarios)

Job(t, id) == [t |-> t, id |-> id]

\* ---------------------------------------------------------------------- cache

\* getCache(k) returns the entry's data
CacheHit(k) == cache[k].has /\ ~(now > cache[k].exp)
CacheAfterGet_Keep(k) == cache

\* the map after getCache(k): an expired entry of k is deleted
CacheAfterGet(k) ==
  IF cache[k].has /\ now > cache[k].exp THEN [cache EXCEPT ![k] = NoEntry] ELSE cache
\* the map after setCache(k, data)
setCache(k, data) ==
  [cache EXCEPT ![k] = [has |-> TRUE, data |-> data, exp |-> now + TtlTicks]]

\* ------------------------------------------------------------ scrapeCounts

Started_UnlessAbandoned(x) ==
  IF \E r \in Reqs : reqKey[r] = x.key /\ resp[r].status = 422
  THEN [x EXCEPT !.st = "settling", !.out = ErrOut(<<"abandoned">>)]
  ELSE IF browser # 0 THEN [x EXCEPT !.st = "session", !.browser = browser]
  ELSE IF ~hasChrome THEN [x EXCEPT !.st = "settling", !.out = ErrOut(MsgNoChrome)]
  ELSE [x EXCEPT !.st = "launching"]

\* scrapeCounts up to its first suspension: getBrowser() returns the warm
\* browser, or calls launchBrowser(), which throws when no binary is found
Started(x) ==
  IF browser # 0 THEN [x EXCEPT !.st = "session", !.browser = browser]
  ELSE IF ~hasChrome THEN [x EXCEPT !.st = "settling", !.out = ErrOut(MsgNoChrome)]
  ELSE [x EXCEPT !.st = "launching"]

\* the promise of scrapeCounts settles with `out`: Limiter.run is resumed by
\* a promise job
Settled(x, out) == [x EXCEPT !.st = "settling", !.browser = 0, !.out = out]

\* the jobs queued when the task of e has become x
SettleJobs(e, x) == IF x.st = "settling" THEN <<Job("runCont", e)>> ELSE <<>>

\* page.goto(candidates[i]) is called
Goto(x, i) == [x EXCEPT !.st = "attempt", !.i = i, !.navs = Append(@, i)]

\* a loop that keeps the reason of its first failure (C17 depends on the
\* assignment in every catch)
LastErr_First(x) == IF x.errs = <<>> THEN <<>> ELSE x.errs[1].msg

\* lastErr of scrapeCounts
LastErr(x) == IF x.errs = <<>> THEN <<>> ELSE x.errs[Len(x.errs)].msg

\* a loop that goes on after any failure (C4 depends on the consent break)
TriesNext_Always(i, msg) == i + 1 < 2

\* a loop that goes on after any failure of the first candidate but a
\* consent wall (C6 depends on the timeout test)
TriesNext_UnlessConsent(i, msg) == ~IsConsentWall(msg) /\ i = 0

\* a loop that never goes on (C5 depends on the retry after a timeout)
TriesNext_Never(i, msg) == FALSE

\* the loop goes on to the next candidate after candidate i failed with msg
TriesNext(i, msg) ==
  IF IsConsentWall(msg) THEN FALSE
  ELSE IF ~(IsTimeoutMsg(msg) /\ i = 0) THEN FALSE
  ELSE i + 1 < 2

\* the catch clause of the candidate loop: the next candidate, or the end of
\* the loop and the throw after it
Catch(x, msg) ==
  LET y == [x EXCEPT !.errs = Append(@, [i |-> x.i, msg |-> msg])]
  IN IF TriesNext(x.i, msg) THEN Goto(y, x.i + 1)
     ELSE [y EXCEPT !.st = "finally", !.out = ErrOut(ExhaustedMsg(LastErr(y)))]

\* the record the attempt returns for a rendered page
openStatsModal_Throws(page) ==
  [opened |-> page.panel = "opens",
   err |-> IF page.panel = "opens" THEN <<>> ELSE MsgNoPanel]

\* openStatsModal: true when the rows of the panel appear; a missing chip, a
\* failed click and both timed-out waits are caught and give false
openStatsModal(page) == [opened |-> page.panel = "opens", err |-> <<>>]

CountsOf_PanelLevel(page) ==
  LET lv == {i \in 1..Len(page.rows) : LabelOf(page.rows[i].label) = "level"}
  IN extractCountsFromModal(page)
       @@ [name |-> extractContributorName(page),
           level |-> IF lv # {}
                     THEN toNum(page.rows[CHOOSE i \in lv : \A j \in lv : j <= i].value)
                     ELSE pullLevelPoints(page.text).level,
           points |-> pullLevelPoints(page.text).points]

CountsOf_TextFirst(page) ==
  [f \in DOMAIN ZeroCounts |->
     IF find(page.text, f) # 0 THEN find(page.text, f)
     ELSE extractCountsFromModal(page)[f]]
    @@ [name |-> extractContributorName(page),
        level |-> pullLevelPoints(page.text).level,
        points |-> pullLevelPoints(page.text).points]

\* { name, level, points, ...domCounts }: a key of domCounts would replace an
\* earlier key of the same name
CountsOf(page) ==
  extractCountsFromModal(page)
    @@ [name |-> extractContributorName(page),
        level |-> pullLevelPoints(page.text).level,
        points |-> pullLevelPoints(page.text).points]

\* the body of one iteration of the candidate loop after page.goto: the
\* consent check, openStatsModal (a rejection of which would reach the catch
\* block), the extraction and the merge
AttemptResult(page) ==
  IF IsConsentText(page.text) THEN [err |-> MsgConsent, counts |-> NoCounts]
  ELSE IF openStatsModal(page).err # <<>>
  THEN [err |-> openStatsModal(page).err, counts |-> NoCounts]
  ELSE [err |-> <<>>, counts |-> CountsOf(page)]

\* what an attempt finds on the pages it can be served
PageResults == { AttemptResult(p) : p \in Pages }

\* scheduleIdleClose(): the timer _idleTimer refers to is cleared, a new one
\* is armed
scheduleIdleClose == [set |-> TRUE, pending |-> TRUE, due |-> now + IdleTicks]

\* ------------------------------------------------------------------- limiter

\* a limiter that lets one caller too many in (C1 depends on the test below)
LimiterFull_OffByOne == active > max

\* `this.active >= this.max`: the caller has to wait
LimiterFull == active >= max

\* a limiter that frees the slot only when the task returned (C14 depends on
\* the release being in a finally block)
Released_OnSuccess(n, out) == IF out.kind = "ok" THEN n - 1 ELSE n

Released_Never(n, out) == n

\* `this.active--` in the finally block of run(), the task having ended
\* with `out`
Released(n, out) == n - 1

\* a limiter that wakes the waiter that came last (C9 depends on the order)
Shifted_Last(ws) == [next |-> ws[Len(ws)], rest |-> SubSeq(ws, 1, Len(ws) - 1)]

\* `this.waiters.shift()`: the waiter woken, and the waiters left
Shifted(ws) == [next |-> Head(ws), rest |-> Tail(ws)]

\* ----------------------------------------------------- GET /localguides/summary

\* deadline = mode === "slow" ? 90_000 : 75_000
DeadlineOf(mode) == IF mode = "slow" THEN SlowDeadlineTicks ELSE DeadlineTicks
DeadlineMs(mode) == IF mode = "slow" THEN "90000" ELSE "75000"

\* a registry that never finds a key (C2 depends on the lookup)
InflightFor_Never(k) == 0

\* a registry that forgets an execution once no caller awaits it any more
InflightFor_AwaitedOnly(k) ==
  IF \E e \in inflight :
       exec[e].key = k /\ \E r \in Reqs : reqExec[r] = e /\ reqSt[r] = "waiting"
  THEN CHOOSE e \in inflight : exec[e].key = k ELSE 0

\* inflight.get(k): the execution registered for key k (0: none)
InflightFor(k) ==
  IF \E e \in inflight : exec[e].key = k
  THEN CHOOSE e \in inflight : exec[e].key = k ELSE 0

\* 400: the identifier is rejected before any other work
ArriveInvalid(r, q) ==
  /\ q.src = NullUrl
  /\ reqSt' = [reqSt EXCEPT ![r] = "done"]
  /\ resp' = [resp EXCEPT ![r] = BadRequest]
  /\ UNCHANGED << now, envVars, reqKey, reqExec, reqDue, exec, limiterVars,
                  inflight, cache, browserVars, microtasks >>

\* the cache holds an unexpired entry: it is the response
ArriveCached(r, q) ==
  LET k == KeyOf(q.mode, q.src)
  IN /\ q.src # NullUrl
     /\ CacheHit(k)
     /\ reqSt' = [reqSt EXCEPT ![r] = "done"]
     /\ reqKey' = [reqKey EXCEPT ![r] = k]
     /\ resp' = [resp EXCEPT ![r] = Ok200(cache[k].data, TRUE)]
     /\ UNCHANGED << now, envVars, reqExec, reqDue, exec, limiterVars,
                     inflight, cache, browserVars, microtasks >>

\* a miss, and deduped() finds the key in flight: the request awaits that
\* execution under a deadline of its own
ArriveAttach(r, q) ==
  LET k == KeyOf(q.mode, q.src)
  IN /\ q.src # NullUrl
     /\ ~CacheHit(k)
     /\ InflightFor(k) # 0
     /\ cache' = CacheAfterGet(k)
     /\ reqSt' = [reqSt EXCEPT ![r] = "waiting"]
     /\ reqKey' = [reqKey EXCEPT ![r] = k]
     /\ reqExec' = [reqExec EXCEPT ![r] = InflightFor(k)]
     /\ reqDue' = [reqDue EXCEPT ![r] = now + DeadlineOf(q.mode)]
     /\ UNCHANGED << now, envVars, resp, exec, limiterVars, inflight,
                     browserVars, microtasks >>

\* a miss, nothing in flight, the limiter is full: the new execution waits
ArriveQueue(r, q) ==
  LET k == KeyOf(q.mode, q.src)
  IN /\ q.src # NullUrl
     /\ ~CacheHit(k)
     /\ InflightFor(k) = 0
     /\ LimiterFull
     /\ cache' = CacheAfterGet(k)
     /\ reqSt' = [reqSt EXCEPT ![r] = "waiting"]
     /\ reqKey' = [reqKey EXCEPT ![r] = k]
     /\ reqExec' = [reqExec EXCEPT ![r] = r]
     /\ reqDue' = [reqDue EXCEPT ![r] = now + DeadlineOf(q.mode)]
     /\ exec' = [exec EXCEPT ![r] = [NoExec EXCEPT !.st = "queued", !.key = k]]
     /\ waiters' = Append(waiters, r)
     /\ inflight' = inflight \cup {r}
     /\ UNCHANGED << now, envVars, resp, active, browserVars, microtasks >>

\* a miss, nothing in flight, a slot is free: the task starts at once
ArriveRun(r, q) ==
  LET k == KeyOf(q.mode, q.src)
      x == Started([NoExec EXCEPT !.key = k])
  IN /\ q.src # NullUrl
     /\ ~CacheHit(k)
     /\ InflightFor(k) = 0
     /\ ~LimiterFull
     /\ cache' = CacheAfterGet(k)
     /\ reqSt' = [reqSt EXCEPT ![r] = "waiting"]
     /\ reqKey' = [reqKey EXCEPT ![r] = k]
     /\ reqExec' = [reqExec EXCEPT ![r] = r]
     /\ reqDue' = [reqDue EXCEPT ![r] = now + DeadlineOf(q.mode)]
     /\ active' = active + 1
     /\ exec' = [exec EXCEPT ![r] = x]
     /\ microtasks' = microtasks \o SettleJobs(r, x)
     /\ inflight' = inflight \cup {r}
     /\ UNCHANGED << now, envVars, resp, waiters, browserVars >>

\* an HTTP request is a macrotask: its handler runs, up to its first
\* suspension, when no promise job is queued.  Requests are numbered in the
\* order they arrive
Arrive(r) ==
  /\ microtasks = <<>>
  /\ r <= load
  /\ reqSt[r] = "new"
  /\ \A q \in Reqs : q < r => reqSt[q] # "new"
  /\ \E q \in Queries :
       \/ ArriveInvalid(r, q)
       \/ ArriveCached(r, q)
       \/ ArriveAttach(r, q)
       \/ ArriveQueue(r, q)
       \/ ArriveRun(r, q)
  /\ input' = NoInput

\* the deadline timer of withDeadline fires: the gate rejects, the race
\* rejects and the handler's error reaches the catch of ah
DeadlineFire(r) ==
  /\ microtasks = <<>>
  /\ reqSt[r] = "waiting"
  /\ reqDue[r] >= 0
  /\ now >= reqDue[r]
  /\ reqSt' = [reqSt EXCEPT ![r] = "done"]
  /\ reqDue' = [reqDue EXCEPT ![r] = -1]
  /\ resp' = [resp EXCEPT ![r] =
       RouteError(DeadlineMsg("scrapeCounts", DeadlineMs(reqKey[r].mode)))]
  /\ UNCHANGED << now, envVars, reqKey, reqExec, exec, limiterVars, inflight,
                  cache, browserVars, microtasks >>
  /\ input' = NoInput

\* ------------------------------------------------------------- promise jobs

\* Limiter.run resumed after `await task()`: the finally block frees the slot
\* and wakes the first waiter; then the promise of run() settles
RunCont(e) ==
  /\ microtasks # <<>>
  /\ Head(microtasks) = Job("runCont", e)
  /\ active' = Released(active, exec[e].out)
  /\ waiters' = IF waiters = <<>> THEN waiters ELSE Shifted(waiters).rest
  /\ microtasks' =
       Tail(microtasks)
         \o (IF waiters = <<>> THEN <<>> ELSE <<Job("admit", Shifted(waiters).next)>>)
         \o <<Job("dedupCont", e)>>
  /\ exec' = [exec EXCEPT ![e] =
       [NoExec EXCEPT !.st = "ran", !.key = exec[e].key, !.out = exec[e].out]]
  /\ UNCHANGED << now, envVars, reqVars, inflight, cache, browserVars >>
  /\ input' = NoInput

\* Limiter.run resumed after the wait: the slot is taken and the task starts
Admit(e) ==
  /\ microtasks # <<>>
  /\ Head(microtasks) = Job("admit", e)
  /\ active' = active + 1
  /\ exec' = [exec EXCEPT ![e] = Started(exec[e])]
  /\ microtasks' = Tail(microtasks) \o SettleJobs(e, Started(exec[e]))
  /\ UNCHANGED << now, envVars, reqVars, waiters, inflight, cache, browserVars >>
  /\ input' = NoInput

\* a handler that goes on after its deadline has fired: every caller that
\* attached to e is resumed, answered or not
RECURSIVE CallersOf_Answered(_, _)
CallersOf_Answered(e, r) ==
  IF r > NReq THEN <<>>
  ELSE (IF reqSt[r] # "new" /\ reqExec[r] = e
        THEN <<Job("deliver", r)>> ELSE <<>>)
       \o CallersOf_Answered(e, r + 1)

\* the callers of e still awaiting it, in the order they attached
RECURSIVE CallersOf(_, _)
CallersOf(e, r) ==
  IF r > NReq THEN <<>>
  ELSE (IF reqSt[r] = "waiting" /\ reqExec[r] = e
        THEN <<Job("deliver", r)>> ELSE <<>>)
       \o CallersOf(e, r + 1)

\* a finally block that deletes the key after a success only (C10 depends
\* on the deletion being unconditional)
Deleted_OnSuccess(reg, e) == IF exec[e].out.kind = "ok" THEN reg \ {e} ELSE reg

\* `inflight.delete(key)` in the finally block of deduped
Deleted(reg, e) == reg \ {e}

\* deduped resumed after `await fn()`: the finally block deletes the key, then
\* the shared promise settles and every awaiting caller is resumed
DedupCont(e) ==
  /\ microtasks # <<>>
  /\ Head(microtasks) = Job("dedupCont", e)
  /\ inflight' = Deleted(inflight, e)
  /\ exec' = [exec EXCEPT ![e].st = "done"]
  /\ microtasks' = Tail(microtasks) \o CallersOf(e, 1)
  /\ UNCHANGED << now, envVars, reqVars, limiterVars, cache, browserVars >>
  /\ input' = NoInput

\* a handler that caches what it sends whatever the outcome (C7 depends on
\* the error skipping setCache)
Respond_CacheAll(r, out) ==
  LET payload == Payload(out.url, now, out.counts)
  IN IF out.kind = "ok"
     THEN [cache |-> setCache(reqKey[r], payload), resp |-> Ok200(payload, FALSE)]
     ELSE [cache |-> setCache(reqKey[r], NoPayload), resp |-> RouteError(out.msg)]

Respond_RequestedUrl(r, out) ==
  LET payload == Payload(reqKey[r].src, now, out.counts)
  IN IF out.kind = "ok"
     THEN [cache |-> setCache(reqKey[r], payload), resp |-> Ok200(payload, FALSE)]
     ELSE [cache |-> cache, resp |-> RouteError(out.msg)]

\* the rest of the handler once the awaited promise has settled with `out`:
\* a result is stamped, cached and sent; an error skips that and reaches the
\* catch of ah
Respond(r, out) ==
  LET payload == Payload(out.url, now, out.counts)
  IN IF out.kind = "ok"
     THEN [cache |-> setCache(reqKey[r], payload), resp |-> Ok200(payload, FALSE)]
     ELSE [cache |-> cache, resp |-> RouteError(out.msg)]

\* the handler resumed after `await withDeadline(...)`: the timer is cleared
\* and the handler runs to its end
Deliver(r) ==
  /\ microtasks # <<>>
  /\ Head(microtasks) = Job("deliver", r)
  /\ microtasks' = Tail(microtasks)
  /\ reqSt' = [reqSt EXCEPT ![r] = "done"]
  /\ reqDue' = [reqDue EXCEPT ![r] = -1]
  /\ cache' = Respond(r, exec[reqExec[r]].out).cache
  /\ resp' = [resp EXCEPT ![r] = Respond(r, exec[reqExec[r]].out).resp]
  /\ UNCHANGED << now, envVars, reqKey, reqExec, exec, limiterVars, inflight,
                  browserVars >>
  /\ input' = NoInput

\* --------------------------------------------- completions of browser work

\* everything but the execution, the promise jobs and the browser bookkeeping
ioFrame == << now, envVars, reqVars, limiterVars, inflight, cache >>

\* puppeteer.launch() resolves: getBrowser stores the process in _browser and
\* returns it; scrapeCounts asks it for a context
LaunchOk(e) ==
  /\ microtasks = <<>>
  /\ exec[e].st = "launching"
  /\ browser' = e
  /\ procs' = procs \cup {e}
  /\ exec' = [exec EXCEPT ![e].st = "session", ![e].browser = e]
  /\ UNCHANGED << ioFrame, contexts, idleTimer, strayTimers, idleClosing, microtasks >>
  /\ input' = NoInput

\* puppeteer.launch() rejects: the error leaves getBrowser and scrapeCounts
LaunchFail(e) ==
  /\ microtasks = <<>>
  /\ exec[e].st = "launching"
  /\ exec' = [exec EXCEPT ![e] = Settled(exec[e], ErrOut(MsgLaunch))]
  /\ microtasks' = <<Job("runCont", e)>>
  /\ UNCHANGED << ioFrame, browserVars >>
  /\ input' = NoInput

\* a finally block that closes the context only when the candidate loop was
\* entered (C11 depends on the close being on every path)
ctxClose_AfterLoopOnly(ctxs, e) == IF exec[e].navs = <<>> THEN ctxs ELSE ctxs \ {e}

\* `try { await ctx?.close(); } catch {}`: the contexts left open
ctxClose(ctxs, e) == ctxs \ {e}

\* the finally block of scrapeCounts has run when x is left through it, ctxs
\* being the contexts open then: page and context are closed (errors
\* swallowed) and the idle timer is re-armed
Finally(e, x, ctxs) ==
  IF x.st = "finally"
  THEN /\ exec' = [exec EXCEPT ![e] = Settled(x, x.out)]
       /\ contexts' = ctxClose(ctxs, e)
       /\ idleTimer' = scheduleIdleClose
       /\ microtasks' = <<Job("runCont", e)>>
  ELSE /\ exec' = [exec EXCEPT ![e] = x]
       /\ contexts' = ctxs
       /\ UNCHANGED << idleTimer, microtasks >>

\* browser.createBrowserContext(), ctx.newPage() and the set-up of the page
\* succeed: the first candidate is navigated to
SessionOk(e) ==
  /\ microtasks = <<>>
  /\ exec[e].st = "session"
  /\ exec[e].browser \in procs
  /\ exec' = [exec EXCEPT ![e] = Goto(exec[e], 0)]
  /\ contexts' = contexts \cup {e}
  /\ UNCHANGED << ioFrame, browser, procs, idleTimer, strayTimers, idleClosing,
                  microtasks >>
  /\ input' = NoInput

\* browser.createBrowserContext() rejects, the process being closed: the
\* error leaves scrapeCounts before its try block
ContextFail(e) ==
  /\ microtasks = <<>>
  /\ exec[e].st = "session"
  /\ exec[e].browser \notin procs
  /\ exec' = [exec EXCEPT ![e] = Settled(exec[e], ErrOut(MsgTargetClosed))]
  /\ microtasks' = <<Job("runCont", e)>>
  /\ UNCHANGED << ioFrame, browserVars >>
  /\ input' = NoInput

\* messages ctx.newPage() or the set-up of the page can reject with
SetupErrors(x) ==
  IF x.browser \in procs THEN {MsgNewPage} ELSE {MsgTargetClosed}

\* the context was made, and ctx.newPage() or the set-up of the page rejects:
\* the error leaves scrapeCounts through the finally block.  A context of a
\* closed process is gone with the process
SetupFail(e) ==
  /\ microtasks = <<>>
  /\ exec[e].st = "session"
  /\ \E msg \in SetupErrors(exec[e]) :
       Finally(e, [exec[e] EXCEPT !.st = "finally", !.out = ErrOut(msg)],
               IF exec[e].browser \in procs THEN contexts \cup {e} ELSE contexts)
  /\ UNCHANGED << ioFrame, browser, procs, strayTimers, idleClosing >>
  /\ input' = NoInput

\* in slow mode a failed page.goto is repeated once on the same URL
GotoRetry(e) ==
  /\ microtasks = <<>>
  /\ exec[e].st = "attempt"
  /\ exec[e].key.mode = "slow"
  /\ Len(SelectSeq(exec[e].navs, LAMBDA n : n = exec[e].i)) = 1
  /\ exec' = [exec EXCEPT ![e] = Goto(exec[e], exec[e].i)]
  /\ UNCHANGED << ioFrame, browserVars, microtasks >>
  /\ input' = NoInput

\* the attempt on a loaded page runs to its end: consent check, name, stats
\* panel, extraction, and the record is returned
AttemptPage(e) ==
  /\ microtasks = <<>>
  /\ exec[e].st = "attempt"
  /\ exec[e].browser \in procs
  /\ \E res \in PageResults :
       Finally(e,
         IF res.err # <<>> THEN Catch(exec[e], res.err)
         ELSE [exec[e] EXCEPT
                 !.st = "finally",
                 !.out = OkOut(Candidate(exec[e].key.src, exec[e].i), res.counts)],
         contexts)
  /\ UNCHANGED << ioFrame, browser, procs, strayTimers, idleClosing >>
  /\ input' = NoInput

\* messages page.goto or an evaluation on the page can reject with
AttemptErrors(x) ==
  IF x.browser \in procs THEN {MsgNavTimeout, MsgNetwork} ELSE {MsgTargetClosed}

\* page.goto or an evaluation rejects: the error is caught by the loop
AttemptFail(e) ==
  /\ microtasks = <<>>
  /\ exec[e].st = "attempt"
  /\ \E msg \in AttemptErrors(exec[e]) : Finally(e, Catch(exec[e], msg), contexts)
  /\ UNCHANGED << ioFrame, browser, procs, strayTimers, idleClosing >>
  /\ input' = NoInput

\* ------------------------------------------------------------- idle shutdown

\* a pending idle timer with due time d fires: the one _idleTimer refers to
\* (own) or one armed earlier that _idleTimer no longer refers to.  Its
\* callback suspends in `await _browser?.close()` while the process closes;
\* with no browser it runs on at once to `_browser = null; _idleTimer = null`
IdleFire(d) ==
  /\ microtasks = <<>>
  /\ now >= d
  /\ \E own \in BOOLEAN :
       LET t == IF own THEN [idleTimer EXCEPT !.pending = FALSE] ELSE idleTimer
           s == IF own THEN strayTimers ELSE [strayTimers EXCEPT ![d] = @ - 1]
       IN /\ IF own THEN idleTimer.pending /\ idleTimer.due = d
                    ELSE strayTimers[d] > 0
          /\ IF browser # 0
             THEN /\ procs' = procs \ {browser}
                  /\ contexts' = {e \in contexts : exec[e].browser # browser}
                  /\ idleClosing' = idleClosing + 1
                  /\ idleTimer' = t
                  /\ strayTimers' = s
                  /\ UNCHANGED browser
             ELSE /\ idleTimer' = NoTimer
                  /\ strayTimers' =
                       IF t.pending THEN [s EXCEPT ![t.due] = @ + 1] ELSE s
                  /\ UNCHANGED << browser, procs, contexts, idleClosing >>
  /\ UNCHANGED << ioFrame, exec, microtasks >>
  /\ input' = NoInput

\* the idle callback resumed: `_browser = null; _idleTimer = null`; a timer
\* armed in the meantime stays pending with no reference left to it
IdleCloseDone ==
  /\ microtasks = <<>>
  /\ idleClosing > 0
  /\ idleClosing' = idleClosing - 1
  /\ browser' = 0
  /\ idleTimer' = NoTimer
  /\ strayTimers' =
       IF idleTimer.pending
       THEN [strayTimers EXCEPT ![idleTimer.due] = @ + 1] ELSE strayTimers
  /\ UNCHANGED << ioFrame, exec, procs, contexts, microtasks >>
  /\ input' = NoInput

\* the clock advances: between two macrotasks, or before the resumption of a
\* route handler (the promise job that reads the clock)
Tick ==
  /\ now < horizon
  /\ microtasks # <<>> => Head(microtasks).t = "deliver"
  /\ now' = now + 1
  /\ UNCHANGED << envVars, reqVars, exec, limiterVars, inflight, cache,
                  browserVars, microtasks >>
  /\ input' = NoInput

Next ==
  \/ \E r \in Reqs : Arrive(r)
  \/ \E r \in Reqs : DeadlineFire(r)
  \/ \E e \in Reqs : RunCont(e)
  \/ \E e \in Reqs : Admit(e)
  \/ \E e \in Reqs : DedupCont(e)
  \/ \E r \in Reqs : Deliver(r)
  \/ \E e \in Reqs : LaunchOk(e)
  \/ \E e \in Reqs : LaunchFail(e)
  \/ \E e \in Reqs : SessionOk(e)
  \/ \E e \in Reqs : ContextFail(e)
  \/ \E e \in Reqs : SetupFail(e)
  \/ \E e \in Reqs : GotoRetry(e)
  \/ \E e \in Reqs : AttemptPage(e)
  \/ \E e \in Reqs : AttemptFail(e)
  \/ \E d \in DueTimes : IdleFire(d)
  \/ IdleCloseDone
  \/ Tick

Spec == Init /\ [][Next]_vars

\* what the server does by itself: promise jobs run, browser operations
\* settle, timers fire and time passes; clients need not send anything
Progress ==
  \/ \E r \in Reqs : DeadlineFire(r) \/ Deliver(r)
  \/ \E e \in Reqs : RunCont(e) \/ Admit(e) \/ DedupCont(e)
  \/ \E e \in Reqs : LaunchOk(e) \/ LaunchFail(e)
  \/ \E e \in Reqs : SessionOk(e) \/ ContextFail(e) \/ SetupFail(e)
  \/ \E e \in Reqs : GotoRetry(e) \/ AttemptPage(e) \/ AttemptFail(e)
  \/ \E d \in DueTimes : IdleFire(d)
  \/ IdleCloseDone
  \/ Tick

\* the event loop never stops while it has something to run, and every
\* browser operation settles
FairSpec ==
  /\ StateAfterStart({sc \in Scenarios : sc.load < NReq /\ sc.max = 1})
  /\ [][Next]_vars
  /\ WF_vars(Progress)

\* ----------------------------------------------------------- observed inputs

\* the query the route computes from each query string
RawQueries ==
  { [raw |-> i.raw, mode |-> i.mode,
     q |-> [src |-> normalizeIdOrUrl(i.raw), mode |-> toLowerCase(i.mode)]] :
      i \in RawInputs }

\* what an attempt finds on each page
ServedResults == { [page |-> p, res |-> AttemptResult(p)] : p \in ServedPages }

\* Arrive, the query string of the request being kept in `input`
ArriveObserved(r) ==
  /\ microtasks = <<>>
  /\ r <= load
  /\ reqSt[r] = "new"
  /\ \A q \in Reqs : q < r => reqSt[q] # "new"
  /\ \E i \in RawQueries :
       /\ input' = [NoInput EXCEPT !.kind = "request", !.of = r,
                                   !.raw = i.raw, !.mode = i.mode]
       /\ \/ ArriveInvalid(r, i.q)
          \/ ArriveCached(r, i.q)
          \/ ArriveAttach(r, i.q)
          \/ ArriveQueue(r, i.q)
          \/ ArriveRun(r, i.q)

\* AttemptPage, the page the navigation rendered being kept in `input`
AttemptObserved(e) ==
  /\ microtasks = <<>>
  /\ exec[e].st = "attempt"
  /\ exec[e].browser \in procs
  /\ \E s \in ServedResults :
       /\ input' = [NoInput EXCEPT !.kind = "page", !.of = e, !.page = s.page]
       /\ Finally(e,
            IF s.res.err # <<>> THEN Catch(exec[e], s.res.err)
            ELSE [exec[e] EXCEPT
                    !.st = "finally",
                    !.out = OkOut(Candidate(exec[e].key.src, exec[e].i), s.res.counts)],
            contexts)
  /\ UNCHANGED << ioFrame, browser, procs, strayTimers, idleClosing >>

ObservedNext ==
  \/ \E r \in Reqs : ArriveObserved(r)
  \/ \E r \in Reqs : DeadlineFire(r)
  \/ \E e \in Reqs : RunCont(e)
  \/ \E e \in Reqs : Admit(e)
  \/ \E e \in Reqs : DedupCont(e)
  \/ \E r \in Reqs : Deliver(r)
  \/ \E e \in Reqs : LaunchOk(e)
  \/ \E e \in Reqs : LaunchFail(e)
  \/ \E e \in Reqs : SessionOk(e)
  \/ \E e \in Reqs : ContextFail(e)
  \/ \E e \in Reqs : SetupFail(e)
  \/ \E e \in Reqs : GotoRetry(e)
  \/ \E e \in Reqs : AttemptObserved(e)
  \/ \E e \in Reqs : AttemptFail(e)
  \/ \E d \in DueTimes : IdleFire(d)
  \/ IdleCloseDone
  \/ Tick

\* the server with one slot and one request less than NReq until one instant
\* before the last, its inputs drawn from RawInputs and ServedPages and
\* observed
ObservedSpec ==
  /\ StateAfterStart({[max |-> 1, load |-> NReq - 1, horizon |-> MaxTime - 1]})
  /\ [][ObservedNext]_vars

\* ------------------------------------------------------ the extractor alone

\* rows a statistics panel can show: both labels of facts with several
\* values, a label of another field, labels the extractor has no field for
PanelRowChoices ==
  { [label |-> "Facts checked", value |-> <<"3">>],
    [label |-> "Facts checked", value |-> <<"1", ",", "2", "0", "4">>],
    [label |-> "Reported incorrect", value |-> <<"5">>],
    [label |-> "Reported incorrect", value |-> <<>>],
    [label |-> "Reviews", value |-> <<"4", "2">>],
    [label |-> "Videos", value |-> <<"9">>],
    [label |-> "Captions", value |-> <<"7">>] }

\* panels of at most MaxPanelRows rows, in every order
Panels ==
  UNION { [1..n -> PanelRowChoices] : n \in 0..MaxPanelRows }

\* the document holds a panel and nothing has been read
PanelLoaded ==
  /\ ServerAfterStart({sc \in Scenarios : sc.max = 1})
  /\ \E rows \in Panels :
       input = [NoInput EXCEPT !.kind = "panel",
                               !.page = [ProfilePage EXCEPT !.rows = rows,
                                                            !.later = rows]]

\* extractCountsFromModal is evaluated on the page
Extract ==
  /\ input.kind = "panel"
  /\ input' = [input EXCEPT !.kind = "extracted",
                            !.counts = extractCountsFromModal(input.page)]
  /\ UNCHANGED << ioFrame, exec, browserVars, microtasks >>

PanelSpec == PanelLoaded /\ [][Extract]_vars

\* ---------------------------------------------------------------- properties

\* executions whose task is between its start and its settlement
Executing == {e \in Reqs : exec[e].st \in Running}

\* executions holding a slot of the limiter
Holding == {e \in Reqs : exec[e].st \in Running \cup {"settling"}}

\* executions whose de-duplicated promise has not settled
Unsettled == {e \in Reqs : exec[e].st \notin {"none", "done"}}

\* the promise jobs queued, as a set
Queued == {microtasks[n] : n \in 1..Len(microtasks)}

\* response rs hands over the outcome `out` of an execution
Carries(rs, out) ==
  IF out.kind = "ok"
  THEN /\ rs.status = 200
       /\ ~rs.cached
       /\ rs.body.contribUrl = out.url
       /\ rs.body.counts = out.counts
  ELSE rs = RouteError(out.msg)

\* request r was answered by its deadline
TimedOut(r) ==
  resp[r] = RouteError(DeadlineMsg("scrapeCounts", DeadlineMs(reqKey[r].mode)))

\* request r got a fresh result: it was answered 200 by a scrape, not from
\* the cache
Fresh(r) == resp[r].status = 200 /\ ~resp[r].cached

\* C1: at most K = scrapeLimiter.max tasks are executing (between the start
\* of task() and its settlement) in every reachable state, the state right
\* after a finishing task has woken a waiter included
C1_AtMostK == Cardinality(Executing) <= max

\* C1 witness: a finishing task has woken a waiter, whose admission is the
\* next promise job, while a request is still to arrive
C1_WokenWhileArriving ==
  /\ microtasks # <<>>
  /\ Head(microtasks).t = "admit"
  /\ \E r \in Reqs : r <= load /\ reqSt[r] = "new"

\* C2 as stated: requests with one key that miss the cache share one
\* execution holding one slot, and every caller of a settled execution has
\* received its result or its error
C2_EveryCallerReceives ==
  /\ \A e, f \in Unsettled : exec[e].key = exec[f].key => e = f
  /\ active = Cardinality(Holding)
  /\ \A r \in Reqs :
       (reqSt[r] = "done" /\ reqExec[r] # 0 /\ exec[reqExec[r]].st = "done")
         => Carries(resp[r], exec[reqExec[r]].out)

\* C2 amended: requests with one key that miss the cache share one execution
\* holding one slot, and every caller whose own deadline has not fired
\* receives the result or the error of that execution
C2_EveryCallerInTimeReceives ==
  /\ \A e, f \in Unsettled : exec[e].key = exec[f].key => e = f
  /\ active = Cardinality(Holding)
  /\ \A r \in Reqs :
       (reqSt[r] = "done" /\ reqExec[r] # 0 /\ ~TimedOut(r))
         => /\ exec[reqExec[r]].st = "done"
            /\ exec[reqExec[r]].key = reqKey[r]
            /\ Carries(resp[r], exec[reqExec[r]].out)

\* C2 witness: two callers of one execution have both been handed its result
C2_TwoCallersServed ==
  \E r, q \in Reqs :
    /\ r # q
    /\ reqExec[r] = r
    /\ reqExec[q] = r
    /\ Fresh(r)
    /\ Fresh(q)

\* C3 as stated: a request answered from the cache within the TTL of the
\* entry the first request for its key wrote gets the payload that request
\* returned, fetchedAt included, and no execution is started for the key in
\* that time
C3_HitReturnsFirstPayload ==
  \A r, q \in Reqs :
    (/\ r < q
     /\ reqKey[q] = reqKey[r]
     /\ reqExec[r] = r
     /\ Fresh(r)
     /\ now <= resp[r].body.fetchedAt + TtlTicks)
      => /\ resp[q].cached => resp[q].body = resp[r].body
         /\ exec[q].st = "none"

\* C4: an execution whose first candidate failed with a consent wall has not
\* navigated to the second candidate, and settles Exhausted by the consent
\* wall after that one attempt
C4_ConsentWallStops ==
  \A e \in Reqs :
    (exec[e].errs # <<>> /\ exec[e].errs[1].i = 0
       /\ IsConsentWall(exec[e].errs[1].msg))
      => /\ \A n \in 1..Len(exec[e].navs) : exec[e].navs[n] = 0
         /\ Len(exec[e].errs) = 1
         /\ exec[e].st = "settling"
         /\ exec[e].out = ErrOut(ExhaustedMsg(MsgConsent))

\* C4 witness: scrapeCounts has settled after a consent wall on the first
\* candidate
C4_ConsentWallMet ==
  \E e \in Reqs :
    /\ exec[e].st = "settling"
    /\ exec[e].errs = <<[i |-> 0, msg |-> MsgConsent]>>

\* the candidates whose attempt has ended in an error, in order
Failed(x) == [n \in 1..Len(x.errs) |-> x.errs[n].i]

\* C5: an execution whose first candidate failed with a timeout goes on to
\* the second candidate once, and ends with that attempt's outcome; no
\* candidate fails twice and no execution attempts more than two
C5_TimeoutRetriesOnce ==
  \A e \in Reqs :
    /\ exec[e].i \in {0, 1}
    /\ Failed(exec[e]) \in {<<>>, <<0>>, <<0, 1>>}
    /\ (exec[e].errs # <<>> /\ IsTimeoutMsg(exec[e].errs[1].msg))
         => /\ \E n \in 1..Len(exec[e].navs) : exec[e].navs[n] = 1
            /\ exec[e].st \in {"attempt", "settling"}
            /\ exec[e].st = "attempt" => exec[e].i = 1 /\ Len(exec[e].errs) = 1
            /\ exec[e].st = "settling" =>
                 \/ /\ Len(exec[e].errs) = 1
                    /\ exec[e].out.kind = "ok"
                    /\ exec[e].out.url = Candidate(exec[e].key.src, 1)
                 \/ /\ Len(exec[e].errs) = 2
                    /\ exec[e].out = ErrOut(ExhaustedMsg(exec[e].errs[2].msg))

\* C5 witness: scrapeCounts has settled after a timeout on each of the two
\* candidates
C5_TimeoutOnBoth ==
  \E e \in Reqs :
    /\ exec[e].st = "settling"
    /\ exec[e].errs = <<[i |-> 0, msg |-> MsgNavTimeout], [i |-> 1, msg |-> MsgNavTimeout]>>

\* C6: an execution whose first candidate failed with an error that is
\* neither a consent wall nor a timeout has settled Exhausted by that error,
\* with no navigation to the second candidate
C6_OtherFailureStops ==
  \A e \in Reqs :
    (exec[e].errs # <<>> /\ exec[e].errs[1].i = 0
       /\ ~IsConsentWall(exec[e].errs[1].msg)
       /\ ~IsTimeoutMsg(exec[e].errs[1].msg))
      => /\ \A n \in 1..Len(exec[e].navs) : exec[e].navs[n] = 0
         /\ Len(exec[e].errs) = 1
         /\ exec[e].st = "settling"
         /\ exec[e].out = ErrOut(ExhaustedMsg(exec[e].errs[1].msg))

\* C6 witness: scrapeCounts has settled after a network error on the first
\* candidate
C6_OtherFailureMet ==
  \E e \in Reqs :
    /\ exec[e].st = "settling"
    /\ exec[e].errs = <<[i |-> 0, msg |-> MsgNetwork]>>

\* a step in which request r is answered
Answered(r) == reqSt[r] # "done" /\ reqSt'[r] = "done"

\* C7: every entry of the cache is a successful payload; a step changes the
\* entry of a key only by evicting it or by caching the 200 response of a
\* request of that key whose execution succeeded; a step that answers a
\* request with a failure leaves the cache as it was
C7_CacheOnlyAfterSuccess ==
  [][/\ \A k \in AllKeys :
          /\ cache'[k].has => cache'[k].data.ok
          /\ cache'[k] # cache[k] =>
               \/ cache'[k] = NoEntry
               \/ \E r \in Reqs :
                    /\ Answered(r)
                    /\ reqKey[r] = k
                    /\ exec[reqExec[r]].out.kind = "ok"
                    /\ resp'[r].status = 200
                    /\ cache'[k].data = resp'[r].body
     /\ \A r \in Reqs :
          (Answered(r) /\ resp'[r].status # 200) => cache' = cache]_vars

\* C7 witness: a request for a key has been answered with a scrape failure,
\* the cache holding no entry for its key and an entry for another
C7_FailureNotCached ==
  \E r \in Reqs :
    /\ resp[r].status = 422
    /\ ~TimedOut(r)
    /\ ~cache[reqKey[r]].has
    /\ \E k \in AllKeys : cache[k].has

\* C8 as stated: the entry a request wrote for its key is, until it expires,
\* the entry of that key, payload and expiry time unchanged
C8_EntryImmutable ==
  \A r \in Reqs :
    (Fresh(r) /\ now <= resp[r].body.fetchedAt + TtlTicks)
      => cache[reqKey[r]] =
           [has |-> TRUE, data |-> resp[r].body,
            exp |-> resp[r].body.fetchedAt + TtlTicks]

\* C9: no execution has started its task while an execution that called
\* run() earlier is still waiting for a slot (requests are numbered in the
\* order they call run())
C9_Fifo ==
  \A e, f \in Reqs :
    (f < e /\ exec[f].st = "queued") => exec[e].st \in {"none", "queued"}

\* C9 witness: two executions were waiting when a task finished; the first
\* has been admitted and runs, the second still waits
C9_FirstOfTwoAdmitted ==
  \E e, f, g \in Reqs :
    /\ microtasks # <<>>
    /\ Head(microtasks) = Job("dedupCont", g)
    /\ g < f
    /\ f < e
    /\ exec[f].st \in Running
    /\ exec[e].st = "queued"
    /\ waiters = <<e>>

\* C10: the registry holds exactly the executions that have not settled, so
\* a key is registered only while an execution for it is unsettled; no
\* request awaits a settled execution unless its resumption is queued, and a
\* request of the key of a settled execution has started one of its own
C10_RegistryTracksUnsettled ==
  /\ inflight = Unsettled
  /\ \A r \in Reqs :
       reqSt[r] = "waiting" =>
         \/ reqExec[r] \in Unsettled
         \/ Job("deliver", r) \in Queued

\* C10 witness: an execution has settled by failure, its key is registered
\* no more, and a later request of that key has started a new execution
C10_NewExecutionAfterFailure ==
  \E e, f \in Reqs :
    /\ e < f
    /\ exec[e].st = "done"
    /\ exec[e].out.kind = "err"
    /\ exec[f].key = exec[e].key
    /\ exec[f].st \in Running
    /\ f \in inflight

\* scrapeCounts of e made a context in a living process and has settled: the
\* candidate loop was entered, or the set-up of the page failed
LeftByFinally(e) ==
  /\ exec[e].st = "settling"
  /\ exec[e].navs # <<>> \/ exec[e].out = ErrOut(MsgNewPage)

\* C11: a context is open only while the scrapeCounts that created it is
\* between the creation and its finally block; once scrapeCounts has settled
\* (by a result, by Exhausted or by an exception of the page set-up) its
\* context is closed, and the idle timer is re-armed with the context closed
C11_ContextClosedOnExit ==
  \A e \in Reqs :
    /\ e \in contexts => exec[e].st = "attempt"
    /\ LeftByFinally(e) =>
         /\ e \notin contexts
         /\ idleTimer = [set |-> TRUE, pending |-> TRUE, due |-> now + IdleTicks]

\* C11 witness: scrapeCounts has settled by an exception of the page set-up,
\* the browser process alive and the context of another execution open
C11_SetupFailedWhileOtherOpen ==
  \E e, f \in Reqs :
    /\ exec[e].st = "settling"
    /\ exec[e].out = ErrOut(MsgNewPage)
    /\ browser \in procs
    /\ f \in contexts

\* C12 as stated: with one slot, so that every session in use was acquired
\* after the release that armed the idle timer, the browser process of an
\* execution that holds a session is not closed under it
C12_NoTeardownUnderSession ==
  max = 1 =>
    \A e \in Reqs :
      exec[e].st \in {"session", "attempt"} => exec[e].browser \in procs

\* C13 as stated: at most one browser process launched by getBrowser is
\* alive, and a living process is the one _browser refers to
C13_OneProcess ==
  /\ Cardinality(procs) <= 1
  /\ \A p \in procs : browser = p

\* the execution request r awaited has finished its cleanup: its promise has
\* settled, its context is closed, its key is registered no more and the
\* slots taken are those of the executions between admission and release
CleanedUp(e) ==
  /\ e \in Reqs
  /\ exec[e].st = "done"
  /\ e \notin contexts
  /\ e \notin inflight
  /\ active = Cardinality(Holding)

\* C14: a request whose deadline fires before its execution has settled is
\* answered with the timeout error, and the execution it abandoned goes on
\* to the end of its cleanup: context closed, slot released, registry entry
\* removed
C14_AbandonedCleansUp ==
  /\ [][\A r \in Reqs :
          (Answered(r) /\ reqExec[r] # 0 /\ exec[reqExec[r]].st # "done")
            => /\ TimedOut(r)'
               /\ exec' = exec]_vars
  /\ \A r \in Reqs :
       (reqSt[r] = "done" /\ TimedOut(r) /\ ~CleanedUp(reqExec[r]))
         ~> CleanedUp(reqExec[r])

\* C14 witness: the caller was answered by its deadline, and the execution
\* it abandoned has since succeeded and finished its cleanup with nobody
\* awaiting it
C14_AbandonedSucceeded ==
  \E r \in Reqs :
    /\ TimedOut(r)
    /\ reqExec[r] = r
    /\ CleanedUp(r)
    /\ exec[r].out.kind = "ok"
    /\ ~cache[reqKey[r]].has

\* C15 as stated: a request rejected as an invalid identifier starts no
\* execution, and no slot of the limiter is taken on behalf of a request that
\* fails because no browser binary is found
C15_NoSlotForRejected ==
  /\ \A r \in Reqs : resp[r] = BadRequest => reqExec[r] = 0 /\ exec[r].st = "none"
  /\ active = Cardinality({e \in Holding : exec[e].out # ErrOut(MsgNoChrome)})

\* C16 as stated: an execution that failed by an error of the browser
\* automation inside scrapeCounts (after the browser was obtained) has
\* settled with the aggregated error `Failed to parse profile (...)`
C16_OnlyAggregated ==
  \A e \in Reqs :
    (exec[e].out.kind = "err" /\ exec[e].out.msg \notin {MsgNoChrome, MsgLaunch})
      => Head(exec[e].out.msg) = "Failed to parse profile ("

\* C17: when scrapeCounts settles Exhausted, its error wraps the reason of
\* the last error caught, which is the error of the last candidate navigated
\* to
C17_CarriesLastReason ==
  \A e \in Reqs :
    (exec[e].st = "settling" /\ exec[e].errs # <<>> /\ exec[e].out.kind = "err")
      => LET last == exec[e].errs[Len(exec[e].errs)]
         IN /\ last.i = exec[e].navs[Len(exec[e].navs)]
            /\ exec[e].out.msg =
                 <<"Failed to parse profile (">> \o last.msg \o <<")">>

\* C17 witness: the first candidate timed out, the second failed with a
\* network error, and scrapeCounts has settled
C17_TwoReasons ==
  \E e \in Reqs :
    /\ exec[e].st = "settling"
    /\ exec[e].errs = <<[i |-> 0, msg |-> MsgNavTimeout], [i |-> 1, msg |-> MsgNetwork]>>

\* C18: a request answered without a record has a classification, a reason
\* and no record field; a request answered with a record was answered after
\* its execution succeeded, with the record of that execution, or from the
\* cache with the payload an earlier request of its key got from a scrape
C18_RecordOnlyOnSuccess ==
  \A r \in Reqs :
    reqSt[r] = "done" =>
      IF resp[r].status = 200
      THEN /\ resp[r].body.ok
           /\ ~resp[r].cached =>
                /\ exec[reqExec[r]].out.kind = "ok"
                /\ resp[r].body.counts = exec[reqExec[r]].out.counts
           /\ resp[r].cached =>
                \E q \in Reqs :
                  /\ q < r
                  /\ Fresh(q)
                  /\ reqKey[q] = reqKey[r]
                  /\ resp[q].body = resp[r].body
      ELSE /\ resp[r].status \in {400, 422}
           /\ resp[r].code \in {"BAD_REQUEST", "ROUTE_ERROR"}
           /\ resp[r].message # <<>>
           /\ resp[r].body = NoPayload

\* C18 witness: one request was answered with a scrape failure and another
\* from the cache
C18_FailureAndHit ==
  \E r, q \in Reqs :
    /\ resp[r].status = 422
    /\ ~TimedOut(r)
    /\ resp[q].status = 200
    /\ resp[q].cached

\* C19 as stated: the response to a request that failed because no browser
\* binary was found has a classification other than that of a scrape failure
C19_BinaryNotFoundDistinct ==
  \A r \in Reqs :
    resp[r].message = MsgNoChrome =>
      << resp[r].status, resp[r].code >>
        # << RouteError(ExhaustedMsg(MsgNavTimeout)).status,
             RouteError(ExhaustedMsg(MsgNavTimeout)).code >>

\* C20 as stated: the record of a successful scrapeCounts comes from a page
\* on which every count field the stats panel gives as zero has the value
\* the text matcher finds for it in the body text
C20_TextFallback ==
  \A e \in Reqs :
    exec[e].out.kind = "ok" =>
      \E p \in Pages :
        /\ ~IsConsentText(p.text)
        /\ exec[e].out.counts = CountsOf(p)
        /\ \A f \in DOMAIN ZeroCounts :
             extractCountsFromModal(p)[f] = 0 =>
               exec[e].out.counts[f] = find(p.text, f)

\* the count field a row label of the statistics panel stands for ("": none)
FieldOf(label) ==
  CASE label \in {"Reviews", " reviews "} -> "reviews"
    [] label = "Ratings" -> "ratings"
    [] label = "Photos" -> "photos"
    [] label = "Answers" -> "questions"
    [] label = "Edits" -> "edits"
    [] label \in {"Reported incorrect", "Facts checked"} -> "facts"
    [] label = "Places added" -> "placesAdded"
    [] label = "Roads added" -> "roadsAdded"
    [] OTHER -> ""

\* the values the rows of a panel show for a field
PanelValues(rows, f) ==
  { toNum(rows[i].value) : i \in {j \in 1..Len(rows) : FieldOf(rows[j].label) = f} }

\* the attempt of execution e has just returned a record for the page observed
Returned(e) ==
  /\ input.kind = "page"
  /\ input.of = e
  /\ exec[e].out.kind = "ok"

\* C21: when an attempt returns a record for a page whose panel was read, every
\* count field for which the panel shows a non-zero value has a non-zero value
\* of the panel (the largest one for facts), whatever the body text says and
\* in whatever order the rows are
C21_PanelValueReturned ==
  \A e \in Reqs :
    Returned(e) /\ ~input.page.evalFails =>
      \A f \in DOMAIN ZeroCounts :
        LET V == PanelValues(input.page.rows, f) \ {0}
        IN V # {} =>
             /\ exec[e].out.counts[f] \in V
             /\ f = "facts" => \A v \in V : v <= exec[e].out.counts[f]

\* a record was returned for a page whose body text gives 7 reviews and whose
\* panel gives 42 in a row that is not the first
C21_TextDisagrees ==
  \E e \in Reqs :
    /\ Returned(e)
    /\ find(input.page.text, "reviews") = 7
    /\ FieldOf(input.page.rows[1].label) # "reviews"
    /\ PanelValues(input.page.rows, "reviews") = {42}
    /\ exec[e].out.counts.reviews = 42

\* what pullLevelPoints finds in each body text
TextLevelPoints == [t \in {p.text : p \in ServedPages} |-> pullLevelPoints(t)]

\* C22: the level and the points of a record an attempt returns are those
\* pullLevelPoints finds in the body text of the page, also when the panel has
\* a row that gives a level
C22_LevelPointsFromText ==
  \A e \in Reqs :
    Returned(e) =>
      /\ exec[e].out.counts.level = TextLevelPoints[input.page.text].level
      /\ exec[e].out.counts.points = TextLevelPoints[input.page.text].points

\* a record was returned for a page whose body text says level 7 and 1,234
\* points and whose panel has a row "Level" showing 3
C22_PanelHasLevelRow ==
  \E e \in Reqs :
    /\ Returned(e)
    /\ \E i \in 1..Len(input.page.rows) :
         input.page.rows[i].label = "Level" /\ toNum(input.page.rows[i].value) = 3
    /\ exec[e].out.counts.level = 7
    /\ exec[e].out.counts.points = 1234

\* the request whose query string is observed
Received(r) == input.kind = "request" /\ input.of = r

\* s is digits, 10 or more, between blanks: the digits, else the empty string
DigitsIn(s) ==
  LET at == {i \in 1..Len(s) : s[i] \in Digit}
  IN IF /\ Cardinality(at) >= 10
        /\ \A i \in 1..Len(s) : s[i] \in Digit \cup Whitespace
        /\ \A i, j \in at : \A k \in i..j : k \in at
     THEN LET lead == Cardinality({k \in 1..Len(s) : \A a \in at : k < a})
          IN SubSeq(s, lead + 1, lead + Cardinality(at))
     ELSE <<>>

\* C23: a request whose contrib_url is 10 or more digits, with or without
\* blanks (space, tab, line break) before and after them, is not rejected and
\* is keyed by the canonical URL of those digits, whatever the blanks
C23_CanonicalForLongId ==
  \A r \in Reqs :
    Received(r) /\ DigitsIn(input.raw) # <<>> =>
      /\ resp[r] # BadRequest
      /\ reqKey[r].src
           = <<"https://www.", "google.com/maps/contrib", "/">> \o DigitsIn(input.raw)

\* a request came with an 11-digit identifier between a line break and
\* trailing blanks
C23_NoisyIdReceived ==
  \E r \in Reqs :
    /\ Received(r)
    /\ input.raw = <<"\n", "\t">> \o IdB \o <<"\t", "\n">>
    /\ reqKey[r].src = CanonicalPrefix \o IdB

\* s contains the path segment google.com/maps/contrib/
HasContribSegment(s) ==
  \E i \in 1..(Len(s) - 1) : s[i] = "google.com/maps/contrib" /\ s[i + 1] = "/"

\* C24: the step that handles a request whose contrib_url is neither 10 or
\* more digits (between blanks) nor a string with the contrib path segment
\* answers it 400 BAD_REQUEST and touches neither the cache, the in-flight
\* registry, the limiter, the executions nor the browser, whatever the state
\* of the server, so the same input is answered the same every time
C24_RejectedBeforeAnything ==
  [][\A r \in Reqs :
       /\ input'.kind = "request"
       /\ input'.of = r
       /\ DigitsIn(input'.raw) = <<>>
       /\ ~HasContribSegment(input'.raw)
       => /\ resp'[r] = BadRequest
          /\ reqSt'[r] = "done"
          /\ UNCHANGED << reqKey, reqExec, reqDue, cache, inflight, active,
                          waiters, exec, browser, procs, contexts, idleTimer,
                          microtasks >>]_vars

\* a request with a 9-digit identifier was answered 400 while the scrape of
\* another request was running
C24_ShortIdWhileBusy ==
  /\ Received(2)
  /\ input.raw = SubSeq(IdA, 1, 9)
  /\ resp[2] = BadRequest
  /\ exec[1].st \in Running

\* C25 as stated: the URL a request that was not rejected is keyed by has the
\* contrib path segment followed by an identifier, does not end with a slash,
\* and is what normalizeIdOrUrl returns for it
C25_OutputIsFixedPoint ==
  \A r \in Reqs :
    Received(r) /\ resp[r] # BadRequest =>
      /\ \E i \in 1..(Len(reqKey[r].src) - 2) :
           /\ reqKey[r].src[i] = "google.com/maps/contrib"
           /\ reqKey[r].src[i + 1] = "/"
           /\ reqKey[r].src[i + 2] \notin {"/", " ", "\t", "\n"}
      /\ reqKey[r].src[Len(reqKey[r].src)] # "/"
      /\ normalizeIdOrUrl(reqKey[r].src) = reqKey[r].src

\* request r is handled by this step, its key being k
Looks(r, k) == reqSt[r] = "new" /\ reqSt'[r] # "new" /\ reqKey'[r] = k

\* C26: a step that handles a request whose key has an expired entry removes
\* the entry and does not answer from it: the request awaits a scrape it
\* starts itself; and an entry leaves the cache in no other step
C26_LazyEviction ==
  [][\A k \in AllKeys :
       /\ \A r \in Reqs :
            Looks(r, k) /\ cache[k].has /\ now > cache[k].exp =>
              /\ ~cache'[k].has
              /\ reqSt'[r] = "waiting"
              /\ reqExec'[r] = r
              /\ exec'[r].st # "none"
       /\ cache[k].has /\ ~cache'[k].has =>
            /\ now > cache[k].exp
            /\ \E r \in Reqs : Looks(r, k)]_vars

\* a request found the entry an earlier request of its key had cached
\* expired: the entry is gone and the request awaits a scrape of its own
C26_ExpiredEntryEvicted ==
  \E q, r \in Reqs :
    /\ q < r
    /\ Fresh(q)
    /\ reqKey[r] = reqKey[q]
    /\ ~cache[reqKey[r]].has
    /\ reqSt[r] = "waiting"
    /\ reqExec[r] = r

\* C27 as stated: the browser process a getBrowser call returns to an
\* execution is one whose close the idle timer has not started
C27_NeverReturnsClosing ==
  [][\A e \in Reqs :
       exec[e].st # "session" /\ exec'[e].st = "session" =>
         exec'[e].browser \in procs']_vars

\* idle timers armed that have neither fired nor been cleared
PendingIdleTimers ==
  (IF idleTimer.pending THEN {<<idleTimer.due, 0>>} ELSE {})
    \cup {tn \in DueTimes \X (1..NReq) : tn[2] <= strayTimers[tn[1]]}

\* C28 as stated: at most one idle-shutdown timer is pending
C28_OneIdleTimer == Cardinality(PendingIdleTimers) <= 1

\* C29: when the page of an attempt does not reveal its statistics panel (no
\* chip, a click that fails, rows that never appear) and is no consent wall,
\* the attempt returns at once: the execution settles with a record for the
\* candidate it had navigated to, no error is caught, and every count field of
\* the record is 0
C29_PanelFailureNotFatal ==
  \A e \in Reqs :
    /\ input.kind = "page"
    /\ input.of = e
    /\ input.page.panel \in PanelFailures
    /\ ~IsConsentText(input.page.text)
    => /\ exec[e].st = "settling"
       /\ exec[e].out.kind = "ok"
       /\ exec[e].out.url = Candidate(exec[e].key.src, exec[e].navs[Len(exec[e].navs)])
       /\ \A n \in 1..Len(exec[e].errs) :
            exec[e].errs[n].i # exec[e].navs[Len(exec[e].navs)]
       /\ \A f \in DOMAIN ZeroCounts : exec[e].out.counts[f] = 0

\* an attempt on a page whose panel rows never appeared returned a record
\* with the level and the points of the text and no counts
C29_PanelTimedOut ==
  \E e \in Reqs :
    /\ Returned(e)
    /\ input.page.panel = "timeout"
    /\ exec[e].out.counts.level = 7
    /\ exec[e].out.counts.points = 1234
    /\ exec[e].out.counts.reviews = 0

\* every numeric field of a record is 0
AllZero(counts) ==
  /\ counts.level = 0
  /\ counts.points = 0
  /\ \A f \in DOMAIN ZeroCounts : counts[f] = 0

\* the page as a second extraction, after a further wait, would find it
Hydrated(page) == [page EXCEPT !.rows = page.later]

\* C30 as stated: an attempt returns a record whose numeric fields are all 0
\* only for a page on which the extraction repeated after a wait also finds
\* nothing
C30_ZeroOnlyAfterRetry ==
  \A e \in Reqs :
    Returned(e) /\ AllZero(exec[e].out.counts) =>
      \A f \in DOMAIN ZeroCounts : PanelValues(Hydrated(input.page).rows, f) \subseteq {0}

\* C31: an attempt on a page that is no consent wall settles the execution
\* with a result, all-zero or not; the URL of a result is that of the
\* candidate attempted last, the second one exactly when the first attempt
\* was caught; a 200 response that is not from the cache reports the URL and
\* the counts of the result, and a cache entry is the body of such a response
C31_SuccessCarriesCandidate ==
  /\ \A e \in Reqs :
       /\ input.kind = "page" /\ input.of = e /\ ~IsConsentText(input.page.text)
            => exec[e].st = "settling" /\ exec[e].out.kind = "ok"
       /\ exec[e].st = "settling" /\ exec[e].out.kind = "ok" =>
            /\ exec[e].out.url = Candidate(exec[e].key.src, exec[e].i)
            /\ exec[e].i = Len(exec[e].errs)
            /\ exec[e].i = 1 => IsTimeoutMsg(exec[e].errs[1].msg)
  /\ \A r \in Reqs :
       Fresh(r) =>
         /\ exec[reqExec[r]].out.kind = "ok"
         /\ resp[r].body.contribUrl = exec[reqExec[r]].out.url
         /\ resp[r].body.counts = exec[reqExec[r]].out.counts
  /\ \A k \in AllKeys :
       cache[k].has =>
         \E r \in Reqs : Fresh(r) /\ reqKey[r] = k /\ cache[k].data = resp[r].body

\* a request was answered 200 with an all-zero record found on the second
\* candidate, and the entry cached for its key reports that candidate's URL
C31_ZeroRecordFromSecondCandidate ==
  \E r \in Reqs :
    /\ Fresh(r)
    /\ AllZero(resp[r].body.counts)
    /\ resp[r].body.contribUrl = Candidate(reqKey[r].src, 1)
    /\ cache[reqKey[r]].has
    /\ cache[reqKey[r]].data.contribUrl = Candidate(reqKey[r].src, 1)

\* the rows of a panel the extractor has a field for
Mapped(rows) == SelectSeq(rows, LAMBDA r : FieldOf(r.label) # "")

\* C32: for every panel, the facts the extractor returns is the largest value
\* of the rows labelled "facts checked" or "reported incorrect", 0 when there
\* is no such row, wherever the rows stand; and the record is the one the
\* extractor returns for the panel without the rows it has no field for
C32_FactsIsMaximum ==
  input.kind = "extracted" =>
    LET V == PanelValues(input.page.rows, "facts") \cup {0}
    IN /\ input.counts.facts \in V
       /\ \A v \in V : v <= input.counts.facts
       /\ input.counts
            = extractCountsFromModal([input.page EXCEPT !.rows = Mapped(@)])

\* the extractor has read a panel in which the larger facts value comes
\* first, a row without a field stands in between
C32_LargerFirst ==
  /\ input.kind = "extracted"
  /\ input.page.rows
       = << [label |-> "Reported incorrect", value |-> <<"5">>],
            [label |-> "Videos", value |-> <<"9">>],
            [label |-> "Facts checked", value |-> <<"3">>] >>
  /\ input.counts.facts = 5
  /\ input.counts.photos = 0

\* the task of execution e has been called
Admitted(e) == exec[e].st \in Running \cup {"settling", "ran", "done"}

\* the waiters that have been woken and have not yet taken their slot
Woken == {e \in Reqs : Job("admit", e) \in Queued}

\* C33: an execution waits in the queue of the limiter only while every slot
\* is taken or promised to a waiter already woken, so that between two
\* requests no waiter is queued beside a free slot; the step in which a
\* task's run() ends, fulfilled or rejected, frees its slot and wakes the
\* first of the waiters; and every execution that waits is admitted in the end
C33_EveryWaiterAdmitted ==
  /\ [](\A e \in Reqs :
          exec[e].st = "queued" =>
            /\ active + Cardinality(Woken) >= max
            /\ microtasks = <<>> => active >= max)
  /\ [][\A e \in Reqs :
          exec[e].st = "settling" /\ exec'[e].st = "ran" =>
            /\ active' = active - 1
            /\ waiters # <<>> =>
                 /\ Job("admit", Head(waiters)) \in Queued'
                 /\ waiters' = Tail(waiters)]_vars
  /\ \A e \in Reqs : (exec[e].st = "queued") ~> Admitted(e)

\* the waiter woken by a task that was rejected has been admitted and is
\* running, the promise of the rejected task not yet settled
C33_AdmittedAfterRejection ==
  \E d, e \in Reqs :
    /\ d # e
    /\ exec[d].st = "ran"
    /\ exec[d].out.kind = "err"
    /\ Job("dedupCont", d) \in Queued
    /\ exec[e].st \in Running

\* C34: the step in which the deadline of a request fires while its execution
\* waits in the queue of the limiter answers the request with the timeout
\* error and leaves the queue and the execution as they are; the execution is
\* admitted later and scrapeCounts runs for it, holding a slot
C34_TimedOutWaiterStillRuns ==
  /\ [][\A r \in Reqs :
          (Answered(r) /\ reqExec[r] = r /\ exec[r].st = "queued")
            => /\ TimedOut(r)'
               /\ waiters' = waiters
               /\ \E n \in 1..Len(waiters) : waiters[n] = r
               /\ exec' = exec
               /\ inflight' = inflight]_vars
  /\ \A r \in Reqs :
       (TimedOut(r) /\ reqExec[r] = r /\ exec[r].st = "queued")
         ~> (exec[r].st \in Running /\ r \in Holding /\ active >= 1)

\* the execution of a request already answered by its deadline is woken from
\* the queue of the limiter
C34_AbandonedWaiterWoken ==
  \E r \in Reqs :
    /\ TimedOut(r)
    /\ reqExec[r] = r
    /\ exec[r].st = "queued"
    /\ Job("admit", r) \in Queued

\* C35: an execution whose caller's deadline has fired stays in the in-flight
\* registry as long as it has not settled, and the firing of a deadline
\* changes neither the registry nor the execution; a request for the key of
\* such an execution that arrives meanwhile awaits that same execution under
\* a deadline counted from its own arrival, and no execution is started
C35_AttachesToAbandoned ==
  [][\A r \in Reqs :
          /\ (TimedOut(r)' /\ reqExec'[r] \in Unsettled')
               => reqExec'[r] \in inflight'
          /\ (Answered(r) /\ TimedOut(r)')
               => inflight' = inflight /\ exec' = exec
          /\ \A q \in Reqs \ {r} :
               (/\ TimedOut(r)
                /\ reqExec[r] \in Unsettled
                /\ Looks(q, reqKey[r]))
                 => /\ reqExec'[q] = reqExec[r]
                    /\ reqSt'[q] = "waiting"
                    /\ reqDue'[q] = now + DeadlineOf(reqKey[r].mode)
                    /\ reqDue'[q] > now
                    /\ exec' = exec
                    /\ inflight' = inflight]_vars

\* a request awaits, with its deadline still ahead, an execution whose
\* earlier caller of the same key was answered by the deadline
C35_LateCallerAttached ==
  \E r \in Reqs : \E q \in Reqs \ {r} :
    /\ TimedOut(r)
    /\ reqSt[q] = "waiting"
    /\ reqKey[q] = reqKey[r]
    /\ reqExec[q] = reqExec[r]
    /\ reqExec[r] \in Unsettled
    /\ reqDue[q] > now

\* the requests that attached to execution e
Attached(e) == {r \in Reqs : reqSt[r] # "new" /\ reqExec[r] = e}

\* execution e succeeded after the deadline of every caller attached to it
\* had fired
Discarded(e) ==
  /\ exec[e].st = "done"
  /\ exec[e].out.kind = "ok"
  /\ \A r \in Attached(e) : TimedOut(r)

\* C36: a step gives a key a cache entry only by answering a request of that
\* key that was still awaiting its execution, its deadline not fired; the step
\* in which an execution succeeds with every attached caller timed out leaves
\* the cache as it was and resumes no handler; and the first request of that
\* key to arrive after it starts an execution of its own
C36_OnlyLiveCallerCaches ==
  [][/\ \A k \in AllKeys :
          (cache'[k] # cache[k] /\ cache'[k].has)
            => \E r \in Reqs :
                 /\ reqKey[r] = k
                 /\ reqSt[r] = "waiting"
                 /\ ~TimedOut(r)
                 /\ Answered(r)
                 /\ Fresh(r)'
     /\ \A e \in Reqs :
          /\ (~Discarded(e) /\ Discarded(e)')
               => /\ cache' = cache
                  /\ resp' = resp
                  /\ \A r \in Reqs : Job("deliver", r) \notin Queued'
          /\ \A q \in Reqs :
               (/\ Discarded(e)
                /\ Looks(q, exec[e].key)
                /\ \A r \in Reqs \ {q} :
                     (reqSt[r] # "new" /\ reqKey[r] = exec[e].key)
                       => reqExec[r] = e)
                 => /\ reqExec'[q] = q
                    /\ exec'[q].st # "none"
                    /\ exec'[q].key = exec[e].key
                    /\ reqSt'[q] = "waiting"
                    /\ resp'[q] = resp[q]]_vars

\* an execution succeeded with its only caller timed out, nothing was cached,
\* and a later request of the same key awaits an execution of its own
C36_NewExecutionAfterDiscard ==
  \E e \in Reqs : \E q \in Reqs \ {e} :
    /\ Discarded(e)
    /\ Attached(e) # {}
    /\ reqKey[q] = exec[e].key
    /\ reqSt[q] = "waiting"
    /\ reqExec[q] = q
    /\ exec[q].st # "none"
    /\ ~cache[exec[e].key].has

====
